---- MODULE Spec2Model ----
(***************************************************************************)
(* A model of reverb_inventory_tool.py: the ReverbAPI client with its      *)
(* lru_cache on _make_request, the record reader, the CSV exporter and the *)
(* command dispatcher in main.                                             *)
(*                                                                         *)
(* JSON values are modelled with one uniform shape so that any two can be  *)
(* compared: a value is [isList, items]; a scalar is a one-item value that *)
(* is not a list.  An element of the loaded product list is [isMap,        *)
(* fields, text]: a JSON object (fields is a function from its keys), or a *)
(* JSON string, which read_json accepts as a list element just as well.    *)
(***************************************************************************)
EXTENDS Integers, Sequences, FiniteSets, TLC

\* ------------------------------------------------------------------ bounds
MaxProducts == 3     \* longest product list given to create / update
MaxExport == 2       \* longest product list given to export
MaxPhotos == 2       \* longest photos list of a record
MaxCalls == 3        \* client calls of one behaviour of SpecClient
MaxListCalls == 3    \* list_products calls of one behaviour of SpecCache
ExtraEndpoints == 2  \* distinct endpoints beyond the cache size in SpecCache

\* --------------------------------------------------------- JSON values
Scalar(s) == [isList |-> FALSE, items |-> <<s>>]

ListOf(seq) == [isList |-> TRUE, items |-> seq]

\* Python truthiness of a JSON value ("" and [] are falsy).
Truthy(v) == IF v.isList THEN v.items # <<>> ELSE v.items[1] # ""

\* str(v) as used for an endpoint or a CSV cell.
Str(v) == IF v.isList THEN "[...]" ELSE v.items[1]

EmptyFields == [k \in {} |-> Scalar("")]

MapRecord(f) == [isMap |-> TRUE, fields |-> f, text |-> ""]

TextRecord(s) == [isMap |-> FALSE, fields |-> EmptyFields, text |-> s]

\* An optional request body: data=None, or data=<a product>.
NoData == [present |-> FALSE, val |-> TextRecord("")]

SomeData(p) == [present |-> TRUE, val |-> p]

\* dict.pop(key) / a copy of the mapping without key.
Without(f, key) == [k \in (DOMAIN f) \ {key} |-> f[k]]

\* ------------------------------------------------------------ ReverbAPI
\* maxsize of the lru_cache on _make_request.
CacheMaxSize == 128

\* What the server (or the network) answers to one HTTP request:
\* a 2xx response with a JSON body, a non-2xx response, or no response.
OkOutcome(body) == [status |-> "ok", text |-> body]

HttpErrorOutcome == [status |-> "http_error", text |-> "404 Client Error"]

NetErrorOutcome == [status |-> "net_error", text |-> "Read timed out"]

Responses == {"r1", "r2"}

Outcomes == {OkOutcome(b) : b \in Responses} \cup {HttpErrorOutcome, NetErrorOutcome}

\* The result of a call: a returned value (text) or a raised exception
\* (kind, with text the message's fixed part and cause the str() of the
\* exception it was raised from).
Return(value) == [kind |-> "return", text |-> value, cause |-> ""]

Raise(kind, text, cause) == [kind |-> kind, text |-> text, cause |-> cause]

NoResult == [kind |-> "none", text |-> "", cause |-> ""]

\* The body of _make_request once the cache has let the call through: one
\* requests.request, raise_for_status, response.json(), and the two except
\* clauses that turn HTTPError and RequestException into ValueError.
SendRequestUncaught(outcome) ==
    CASE outcome.status = "ok" -> Return(outcome.text)
      [] outcome.status = "http_error" ->
            Raise("ValueError", "HTTP error occurred", outcome.text)
      [] outcome.status = "net_error" ->
            Raise("RequestException", "", outcome.text)

SendRequest(outcome) ==
    CASE outcome.status = "ok" -> Return(outcome.text)
      [] outcome.status = "http_error" ->
            Raise("ValueError", "HTTP error occurred", outcome.text)
      [] outcome.status = "net_error" ->
            Raise("ValueError", "Request error occurred", outcome.text)

\* lru_cache hashes the call's arguments: a dict is unhashable, None and a
\* str are hashable.
Hashable(data) == ~data.present \/ ~data.val.isMap

\* The cache key is the argument tuple.  No caller in the program passes
\* params, and every behaviour uses one client instance, so self and params
\* are the same in every key and are left out.
CacheKey(method, endpoint, data) ==
    [method |-> method, endpoint |-> endpoint, data |-> data]

\* The cache is kept in recency order: its head is the least recently used
\* entry.  CacheIndex is 0 on a miss.
CacheIndex(c, key) ==
    IF \E i \in 1..Len(c) : c[i].key = key
    THEN CHOOSE i \in 1..Len(c) : c[i].key = key
    ELSE 0

\* A hit makes the entry the most recently used one.
CacheTouch(c, i) == SubSeq(c, 1, i - 1) \o SubSeq(c, i + 1, Len(c)) \o <<c[i]>>

\* A miss whose call returned stores the result, evicting the least
\* recently used entry when the cache is full.
CacheStore(c, key, value) ==
    IF Len(c) >= CacheMaxSize
    THEN Append(Tail(c), [key |-> key, value |-> value])
    ELSE Append(c, [key |-> key, value |-> value])

\* A call that raised stores nothing.
CacheAfterAlways(c, key, res) == CacheStore(c, key, res.text)

CacheAfter(c, key, res) ==
    IF res.kind = "return" THEN CacheStore(c, key, res.text) ELSE c

\* _make_request under its lru_cache decorator.  sent is the number of HTTP
\* requests the call issued, request what it sent (or would have sent).
MakeRequest(c, method, endpoint, data, outcome) ==
    LET key == CacheKey(method, endpoint, data)
        i == CacheIndex(c, key)
    IN  IF ~Hashable(data)
        THEN [cache |-> c, sent |-> 0, request |-> key,
              result |-> Raise("TypeError", "unhashable type: 'dict'", "")]
        ELSE IF i # 0
        THEN [cache |-> CacheTouch(c, i), sent |-> 0, request |-> key,
              result |-> Return(c[i].value)]
        ELSE LET res == SendRequest(outcome)
             IN  [cache |-> CacheAfter(c, key, res), sent |-> 1,
                  request |-> key, result |-> res]

ListProducts(c, outcome) == MakeRequest(c, "GET", "my/listings", NoData, outcome)

CreateProduct(c, product_data, outcome) ==
    MakeRequest(c, "POST", "listings", SomeData(product_data), outcome)

UpdateProduct(c, sku, product_data, outcome) ==
    MakeRequest(c, "PUT", "listings/" \o Str(sku), SomeData(product_data), outcome)

\* ------------------------------------------------------------------ state
VARIABLES
    cache,         \* the lru_cache of _make_request, in recency order
    last,          \* the most recent client call and what came of it
    ncalls,        \* client calls made so far
    listCalls,     \* list_products calls made so far
    listSent,      \* HTTP requests those calls issued
    firstOK,       \* the first list_products call that returned
    nextEndpoint,  \* endpoints requested so far by direct _make_request calls
    listUsedAt,    \* value of nextEndpoint when the list entry was last used
    pc,            \* where main is
    command,       \* args.command
    products,      \* args.file / args.input_file as it is now
    loaded,        \* the same list as read_json returned it
    idx,           \* 1-based position of the create / update loop
    stdout,        \* lines printed
    stderr,        \* what argparse or the interpreter wrote to stderr
    exit,          \* how main ended
    failure,       \* category of the failure that ended main, if any
    calls,         \* client calls main made, in order
    outFile        \* the file at the export's output path

clientVars == <<cache, last, ncalls, listCalls, listSent, firstOK, nextEndpoint, listUsedAt>>

mainVars == <<pc, command, products, loaded, idx, stdout, stderr, exit, failure, calls, outFile>>

vars == <<cache, last, ncalls, listCalls, listSent, firstOK, nextEndpoint, listUsedAt,
          pc, command, products, loaded, idx, stdout, stderr, exit, failure, calls, outFile>>

\* The file at the output path: whether it exists, its CSV content, and how
\* often the program has asked to open it for writing.
NoFile == [exists |-> FALSE, header |-> <<>>, rows |-> <<>>, opens |-> 0]

OldFile == [exists |-> TRUE, header |-> <<"old">>, rows |-> <<<<"kept">>>>, opens |-> 0]

NoCall == [op |-> "none", idx |-> 0, sku |-> Scalar(""), sent |-> 0,
           request |-> CacheKey("", "", NoData),
           outcome |-> NetErrorOutcome, result |-> NoResult]

\* The record of one client call: which method, for which list position,
\* with which sku, and MakeRequest's answer.
Call(op, i, sku, outcome, r) ==
    [op |-> op, idx |-> i, sku |-> sku, sent |-> r.sent,
     request |-> r.request, outcome |-> outcome, result |-> r.result]

NoFirst == [found |-> FALSE, at |-> 0, value |-> ""]

\* A fresh process that only uses a client: nothing cached, main not run.
ClientInit ==
    /\ cache = <<>>
    /\ last = NoCall
    /\ ncalls = 0
    /\ listCalls = 0
    /\ listSent = 0
    /\ firstOK = NoFirst
    /\ nextEndpoint = 0
    /\ listUsedAt = 0
    /\ pc = "idle"
    /\ command = "none"
    /\ products = <<>>
    /\ loaded = <<>>
    /\ idx = 0
    /\ stdout = <<>>
    /\ stderr = <<>>
    /\ exit = "running"
    /\ failure = "none"
    /\ calls = <<>>
    /\ outFile = NoFile

\* -------------------------------------------------- calls on one client
\* Bodies a caller hands to create_product / update_product.
ClientBodies ==
    {MapRecord([k \in {"title"} |-> Scalar("t")]), MapRecord(EmptyFields), TextRecord("x")}

ClientSkus == {Scalar("a"), Scalar("b")}

\* The bookkeeping of a list_products call.
ListBookkeeping(r) ==
    /\ listCalls' = listCalls + 1
    /\ listSent' = listSent + r.sent
    /\ firstOK' = IF ~firstOK.found /\ r.result.kind = "return"
                  THEN [found |-> TRUE, at |-> listCalls + 1, value |-> r.result.text]
                  ELSE firstOK
    /\ listUsedAt' = IF r.result.kind = "return" THEN nextEndpoint ELSE listUsedAt

CallList(outcome) ==
    LET r == ListProducts(cache, outcome)
    IN  /\ cache' = r.cache
        /\ last' = Call("list_products", 0, Scalar(""), outcome, r)
        /\ ncalls' = ncalls + 1
        /\ ListBookkeeping(r)
        /\ UNCHANGED nextEndpoint
        /\ UNCHANGED mainVars

CallCreate(body, outcome) ==
    LET r == CreateProduct(cache, body, outcome)
    IN  /\ cache' = r.cache
        /\ last' = Call("create_product", 0, Scalar(""), outcome, r)
        /\ ncalls' = ncalls + 1
        /\ UNCHANGED <<listCalls, listSent, firstOK, nextEndpoint, listUsedAt>>
        /\ UNCHANGED mainVars

CallUpdate(sku, body, outcome) ==
    LET r == UpdateProduct(cache, sku, body, outcome)
    IN  /\ cache' = r.cache
        /\ last' = Call("update_product", 0, sku, outcome, r)
        /\ ncalls' = ncalls + 1
        /\ UNCHANGED <<listCalls, listSent, firstOK, nextEndpoint, listUsedAt>>
        /\ UNCHANGED mainVars

\* A direct _make_request("GET", <endpoint>) for an endpoint not asked before.
Endpoint(n) == "listings/" \o ToString(n)

CallGet(outcome) ==
    LET r == MakeRequest(cache, "GET", Endpoint(nextEndpoint + 1), NoData, outcome)
    IN  /\ cache' = r.cache
        /\ last' = Call("_make_request", 0, Scalar(""), outcome, r)
        /\ ncalls' = ncalls + 1
        /\ nextEndpoint' = nextEndpoint + 1
        /\ UNCHANGED <<listCalls, listSent, firstOK, listUsedAt>>
        /\ UNCHANGED mainVars

ClientList == ncalls < MaxCalls /\ \E o \in Outcomes : CallList(o)

ClientCreate == ncalls < MaxCalls /\ \E b \in ClientBodies, o \in Outcomes : CallCreate(b, o)

ClientUpdate ==
    ncalls < MaxCalls /\ \E s \in ClientSkus, b \in ClientBodies, o \in Outcomes : CallUpdate(s, b, o)

ClientNext == ClientList \/ ClientCreate \/ ClientUpdate

SpecClient == ClientInit /\ [][ClientNext]_vars

\* Many distinct endpoints, each answered, with list_products calls between
\* them: the cache fills up and evicts.
CacheList == listCalls < MaxListCalls /\ \E o \in Outcomes : CallList(o)

CacheGet ==
    /\ nextEndpoint < CacheMaxSize + ExtraEndpoints
    /\ CallGet(OkOutcome("r1"))

CacheNext == CacheList \/ CacheGet

SpecCache == ClientInit /\ [][CacheNext]_vars

\* ------------------------------------------------------------ load_config
ConfigFiles == {"missing_file", "missing_section", "malformed", "no_token", "ok"}

\* toml.load("pyproject.toml")["tool"]["reverb_inventory_tool"]: a missing
\* file or table becomes RuntimeError; toml's TomlDecodeError (a ValueError)
\* is not in the except clause and passes through.
LoadConfig(cfg) ==
    CASE cfg = "missing_file" ->
            Raise("RuntimeError", "Could not find configuration in pyproject.toml.", "")
      [] cfg = "missing_section" ->
            Raise("RuntimeError", "Could not find configuration in pyproject.toml.", "")
      [] cfg = "malformed" -> Raise("TomlDecodeError", "invalid toml", "")
      [] OTHER -> Return(cfg)

\* config["api_token"] in main.
ApiToken(cfg) ==
    IF cfg = "no_token" THEN Raise("KeyError", "'api_token'", "") ELSE Return("token")

\* -------------------------------------------------------------- read_json
ReadOk(data) == [kind |-> "return", text |-> "", data |-> data]

ReadFails(text) == [kind |-> "ArgumentTypeError", text |-> text, data |-> <<>>]

ReadJson(file) ==
    CASE file.state = "missing" -> ReadFails("File not found")
      [] file.state = "invalid_json" -> ReadFails("Invalid JSON in file")
      [] file.state = "not_list" -> ReadFails("JSON file must contain a list of products")
      [] OTHER -> ReadOk(file.data)

\* ---------------------------------------------------------- export_to_csv
\* f"product_image_{i}"
ImageKey(i) == "product_image_" \o ToString(i)

\* One round of the flattening loop on one product: what the caller's
\* record is afterwards and what was appended to processed_products.
\* product.copy() keeps the caller's record apart from the pops and stores.
FlattenStepInPlace(product) ==
    LET f == product.fields
        flat ==
            IF "photos" \in DOMAIN f /\ f["photos"].isList
            THEN LET photos == f["photos"].items
                     base == Without(f, "photos")
                     images == {ImageKey(i) : i \in 1..Len(photos)}
                 IN  [k \in (DOMAIN base) \cup images |->
                        IF k \in images
                        THEN Scalar(photos[CHOOSE i \in 1..Len(photos) : ImageKey(i) = k])
                        ELSE base[k]]
            ELSE f
    IN  [original |-> MapRecord(flat), processed |-> MapRecord(flat)]

FlattenStep(product) ==
    LET f == product.fields
        flat ==
            IF "photos" \in DOMAIN f /\ f["photos"].isList
            THEN LET photos == f["photos"].items
                     base == Without(f, "photos")
                     images == {ImageKey(i) : i \in 1..Len(photos)}
                 IN  [k \in (DOMAIN base) \cup images |->
                        IF k \in images
                        THEN Scalar(photos[CHOOSE i \in 1..Len(photos) : ImageKey(i) = k])
                        ELSE base[k]]
            ELSE f
    IN  [original |-> product, processed |-> MapRecord(flat)]

\* The column names of the model in lexicographic order (for photo indices
\* below 10 the order of the digits is the order of the numbers).
LexOrder ==
    <<"photos", "price">> \o [i \in 1..9 |-> ImageKey(i)] \o <<"sku", "title">>

Unsorted(S) ==
    LET In(k) == k \in S
        asc == SelectSeq(LexOrder, In)
    IN  [i \in 1..Len(asc) |-> asc[Len(asc) + 1 - i]]

\* sorted(list(all_headers))
Sorted(S) ==
    LET In(k) == k \in S
    IN  SelectSeq(LexOrder, In)

\* One DictWriter row: the value's str() per column, restval "" for a
\* missing key.
Row(fields, fieldnames) ==
    [j \in 1..Len(fieldnames) |->
        IF fieldnames[j] \in DOMAIN fields THEN Str(fields[fieldnames[j]]) ELSE ""]

\* A printed line; idx tells which list position it is about (0: none).
Line(kind, text, i) == [kind |-> kind, text |-> text, idx |-> i]

NoMap(prods) == {i \in 1..Len(prods) : ~prods[i].isMap}

\* export_to_csv past its guard: the flattening loop, then the write.  A
\* list element that is no mapping has no copy(): AttributeError leaves the
\* loop before the file is touched.  io is what the file system does.
ExportWrite(prods, file, io) ==
    IF NoMap(prods) # {}
    THEN LET j == CHOOSE i \in NoMap(prods) : \A k \in NoMap(prods) : i <= k
         IN  [products |-> [i \in 1..Len(prods) |->
                              IF i < j THEN FlattenStep(prods[i]).original ELSE prods[i]],
              file |-> file,
              lines |-> <<>>,
              raised |-> Raise("AttributeError", "'str' object has no attribute 'copy'", "")]
    ELSE LET steps == [i \in 1..Len(prods) |-> FlattenStep(prods[i])]
             processed_products == [i \in 1..Len(prods) |-> steps[i].processed.fields]
             all_headers == UNION {DOMAIN processed_products[i] : i \in 1..Len(prods)}
             fieldnames == Sorted(all_headers)
             written == [exists |-> TRUE,
                         header |-> fieldnames,
                         rows |-> [i \in 1..Len(prods) |-> Row(processed_products[i], fieldnames)],
                         opens |-> file.opens + 1]
             originals == [i \in 1..Len(prods) |-> steps[i].original]
         IN  CASE io = "ok" ->
                    [products |-> originals, file |-> written,
                     lines |-> <<Line("exported", "Successfully exported data to out.csv", 0)>>,
                     raised |-> NoResult]
               [] io = "open_fails" ->
                    [products |-> originals,
                     file |-> [file EXCEPT !.opens = file.opens + 1],
                     lines |-> <<Line("write_error", "Error writing to file out.csv", 0)>>,
                     raised |-> NoResult]
               [] OTHER ->
                    [products |-> originals,
                     file |-> [exists |-> TRUE, header |-> <<>>, rows |-> <<>>,
                               opens |-> file.opens + 1],
                     lines |-> <<Line("write_error", "Error writing to file out.csv", 0)>>,
                     raised |-> NoResult]

ExportToCsvUnguarded(prods, file, io) == ExportWrite(prods, file, io)

ExportToCsv(prods, file, io) ==
    IF prods = <<>>
    THEN [products |-> prods, file |-> file,
          lines |-> <<Line("empty", "No products to export.", 0)>>,
          raised |-> NoResult]
    ELSE ExportWrite(prods, file, io)

\* ------------------------------------------------------------------- main
\* except (RuntimeError, ValueError, argparse.ArgumentTypeError);
\* TomlDecodeError is a subclass of ValueError.
HandlerCatches(kind) ==
    kind \in {"RuntimeError", "ValueError", "TomlDecodeError", "ArgumentTypeError"}

\* str(e) of an exception.
ErrorText(e) == IF e.cause = "" THEN e.text ELSE e.text \o ": " \o e.cause

\* How main ends when e (NoResult: nothing) was raised inside its try block:
\* the handler prints "Error: ..." to stdout, anything else leaves main and
\* the interpreter writes the traceback to stderr.
ExitAfter(e) ==
    IF e.kind = "none" THEN "returned"
    ELSE IF HandlerCatches(e.kind) THEN "handled" ELSE "uncaught"

StdoutAfter(out, e) ==
    IF HandlerCatches(e.kind) THEN Append(out, Line("error", ErrorText(e), 0)) ELSE out

StderrAfter(err, e) ==
    IF e.kind # "none" /\ ~HandlerCatches(e.kind)
    THEN Append(err, Line("traceback", e.kind, 0))
    ELSE err

\* One round of the create loop: api.create_product(product), then the print.
\* An exception leaves the loop.
CreateIterationCatching(product, i, c, outcome) ==
    LET r == CreateProduct(c, product, outcome)
    IN  [product |-> product,
         cache |-> r.cache,
         calls |-> <<Call("create_product", i, Scalar(""), outcome, r)>>,
         lines |-> IF r.result.kind = "return"
                   THEN <<Line("created", r.result.text, i)>>
                   ELSE <<Line("error", ErrorText(r.result), i)>>,
         raised |-> NoResult]

CreateIteration(product, i, c, outcome) ==
    LET r == CreateProduct(c, product, outcome)
    IN  [product |-> product,
         cache |-> r.cache,
         calls |-> <<Call("create_product", i, Scalar(""), outcome, r)>>,
         lines |-> IF r.result.kind = "return"
                   THEN <<Line("created", r.result.text, i)>>
                   ELSE <<>>,
         raised |-> IF r.result.kind = "return" THEN NoResult ELSE r.result]

\* One round of the update loop: product.pop("sku", None), the skip on a
\* falsy sku, api.update_product(sku, product) with the popped record,
\* then the print.
UpdateIteration(product, i, c, outcome) ==
    IF ~product.isMap
    THEN [product |-> product, cache |-> c, calls |-> <<>>, lines |-> <<>>,
          raised |-> Raise("AttributeError", "'str' object has no attribute 'pop'", "")]
    ELSE LET hasSku == "sku" \in DOMAIN product.fields
             sku == IF hasSku THEN product.fields["sku"] ELSE Scalar("")
             popped == MapRecord(Without(product.fields, "sku"))
         IN  IF ~hasSku \/ ~Truthy(sku)
             THEN [product |-> popped, cache |-> c, calls |-> <<>>,
                   lines |-> <<Line("notice", "SKU is required for updating a product.", i)>>,
                   raised |-> NoResult]
             ELSE LET r == UpdateProduct(c, sku, popped, outcome)
                  IN  [product |-> popped,
                       cache |-> r.cache,
                       calls |-> <<Call("update_product", i, sku, outcome, r)>>,
                       lines |-> IF r.result.kind = "return"
                                 THEN <<Line("updated", r.result.text, i)>>
                                 ELSE <<>>,
                       raised |-> IF r.result.kind = "return" THEN NoResult ELSE r.result]

\* ---------------------------------------------------- what main is given
Urls == {"u1", "u2"}

PhotoLists == UNION {[1..n -> Urls] : n \in 0..MaxPhotos}

\* All mappings with keys among those of choices, each key absent or bound
\* to one of its choices.
Mappings(choices) ==
    UNION {[K -> UNION {choices[k] : k \in K}] : K \in SUBSET DOMAIN choices}

WellTyped(f, choices) == \A k \in DOMAIN f : f[k] \in choices[k]

RecordsOver(choices) ==
    {MapRecord(f) : f \in {g \in Mappings(choices) : WellTyped(g, choices)}}

\* Records given to create and update: sku absent, empty or "a".
ApiChoices ==
    [sku |-> {Scalar(""), Scalar("a")}, title |-> {Scalar("t")}]

\* Records given to export: photos a list or a plain string, and a column
\* of the record's own that is named like a photo column.
ExportChoices ==
    [photos |-> {ListOf(l) : l \in PhotoLists} \cup {Scalar("p")},
     product_image_1 |-> {Scalar("x")}]

ListsUpTo(S, n) == UNION {[1..m -> S] : m \in 0..n}

ProductLists(cmd) ==
    IF cmd = "export"
    THEN ListsUpTo(RecordsOver(ExportChoices) \cup {TextRecord("x")}, MaxExport)
    ELSE ListsUpTo(RecordsOver(ApiChoices) \cup {TextRecord("x"), TextRecord("y")}, MaxProducts)

InputFiles(cmd) ==
    {[state |-> st, data |-> <<>>] : st \in {"missing", "invalid_json", "not_list"}}
        \cup {[state |-> "list", data |-> l] : l \in ProductLists(cmd)}

Commands == {"list", "create", "update", "export"}

\* A fresh process about to run main.
Init ==
    /\ cache = <<>>
    /\ last = NoCall
    /\ ncalls = 0
    /\ listCalls = 0
    /\ listSent = 0
    /\ firstOK = NoFirst
    /\ nextEndpoint = 0
    /\ listUsedAt = 0
    /\ pc = "parse"
    /\ command \in Commands
    /\ products = <<>>
    /\ loaded = <<>>
    /\ idx = 0
    /\ stdout = <<>>
    /\ stderr = <<>>
    /\ exit = "running"
    /\ failure = "none"
    /\ calls = <<>>
    /\ outFile \in {NoFile, OldFile}

\* parser.parse_args(): argparse runs read_json as the type of --file /
\* --input-file, and answers its ArgumentTypeError with parser.error():
\* usage and message on stderr, SystemExit(2).
ParseArgs ==
    /\ pc = "parse"
    /\ IF command = "list"
       THEN /\ pc' = "config"
            /\ UNCHANGED <<products, loaded, stderr, exit, failure>>
       ELSE \E file \in InputFiles(command) :
              LET r == ReadJson(file)
              IN  IF r.kind = "return"
                  THEN /\ products' = r.data
                       /\ loaded' = r.data
                       /\ pc' = IF command = "export" THEN "export" ELSE "config"
                       /\ UNCHANGED <<stderr, exit, failure>>
                  ELSE /\ pc' = "done"
                       /\ exit' = "parser_exit"
                       /\ failure' = "file"
                       /\ stderr' = Append(stderr, Line("usage", r.text, 0))
                       /\ UNCHANGED <<products, loaded>>
    /\ UNCHANGED <<command, idx, stdout, calls, outFile>>
    /\ UNCHANGED clientVars

\* config = load_config(); api = ReverbAPI(config["api_token"])
Configure ==
    /\ pc = "config"
    /\ \E cfg \in ConfigFiles :
          LET r == LoadConfig(cfg)
              e == IF r.kind # "return" THEN r
                   ELSE IF ApiToken(cfg).kind # "return" THEN ApiToken(cfg)
                   ELSE NoResult
          IN  IF e.kind = "none"
              THEN /\ pc' = command
                   /\ idx' = 1
                   /\ UNCHANGED <<stdout, stderr, exit, failure>>
              ELSE /\ pc' = "done"
                   /\ exit' = ExitAfter(e)
                   /\ failure' = "config"
                   /\ stdout' = StdoutAfter(stdout, e)
                   /\ stderr' = StderrAfter(stderr, e)
                   /\ UNCHANGED idx
    /\ UNCHANGED <<command, products, loaded, calls, outFile>>
    /\ UNCHANGED clientVars

\* products = api.list_products(); print(json.dumps(products, indent=2))
ListCommand ==
    /\ pc = "list"
    /\ \E o \in Outcomes :
          LET r == ListProducts(cache, o)
              e == IF r.result.kind = "return" THEN NoResult ELSE r.result
          IN  /\ cache' = r.cache
              /\ calls' = Append(calls, Call("list_products", 0, Scalar(""), o, r))
              /\ pc' = "done"
              /\ exit' = ExitAfter(e)
              /\ failure' = IF e.kind = "none" THEN "none" ELSE "api"
              /\ stdout' = IF e.kind = "none"
                           THEN Append(stdout, Line("json", r.result.text, 0))
                           ELSE StdoutAfter(stdout, e)
              /\ stderr' = StderrAfter(stderr, e)
              /\ last' = Call("list_products", 0, Scalar(""), o, r)
              /\ ncalls' = ncalls + 1
              /\ ListBookkeeping(r)
    /\ UNCHANGED <<command, products, loaded, idx, outFile, nextEndpoint>>

\* What a round of a loop leaves behind.
LoopRound(it, cat) ==
    /\ cache' = it.cache
    /\ calls' = calls \o it.calls
    /\ products' = [products EXCEPT ![idx] = it.product]
    /\ stdout' = StdoutAfter(stdout \o it.lines, it.raised)
    /\ stderr' = StderrAfter(stderr, it.raised)
    /\ IF it.raised.kind = "none"
       THEN /\ idx' = idx + 1
            /\ UNCHANGED <<pc, exit, failure>>
       ELSE /\ pc' = "done"
            /\ exit' = ExitAfter(it.raised)
            /\ failure' = IF it.calls # <<>> THEN cat ELSE "record"
            /\ UNCHANGED idx
    /\ last' = IF it.calls # <<>> THEN it.calls[1] ELSE last
    /\ ncalls' = ncalls + Len(it.calls)
    /\ UNCHANGED <<command, loaded, outFile>>
    /\ UNCHANGED <<listCalls, listSent, firstOK, nextEndpoint, listUsedAt>>

CreateStep ==
    /\ pc = "create"
    /\ idx <= Len(products)
    /\ \E o \in Outcomes : LoopRound(CreateIteration(products[idx], idx, cache, o), "api")

UpdateStep ==
    /\ pc = "update"
    /\ idx <= Len(products)
    /\ \E o \in Outcomes : LoopRound(UpdateIteration(products[idx], idx, cache, o), "api")

\* The for loop has run out of records.
LoopEnd ==
    /\ pc \in {"create", "update"}
    /\ idx > Len(products)
    /\ pc' = "done"
    /\ exit' = "returned"
    /\ UNCHANGED <<command, products, loaded, idx, stdout, stderr, failure, calls, outFile>>
    /\ UNCHANGED clientVars

\* export_to_csv(args.input_file, args.output_file); return
ExportCommand ==
    /\ pc = "export"
    /\ \E io \in {"ok", "open_fails", "write_fails"} :
          LET r == ExportToCsv(products, outFile, io)
          IN  /\ products' = r.products
              /\ outFile' = r.file
              /\ stdout' = StdoutAfter(stdout \o r.lines, r.raised)
              /\ stderr' = StderrAfter(stderr, r.raised)
              /\ exit' = ExitAfter(r.raised)
              /\ failure' = IF r.raised.kind = "none" THEN "none" ELSE "record"
    /\ pc' = "done"
    /\ UNCHANGED <<command, loaded, idx, calls>>
    /\ UNCHANGED clientVars

Next ==
    \/ ParseArgs
    \/ Configure
    \/ ListCommand
    \/ CreateStep
    \/ UpdateStep
    \/ LoopEnd
    \/ ExportCommand

Spec == Init /\ [][Next]_vars

\* ================================================================ claims
ListKey == CacheKey("GET", "my/listings", NoData)

C2_CreateUpdateSendOnce ==
    (last.op \in {"create_product", "update_product"} /\ last.request.data.val.isMap) =>
        /\ last.sent = 1
        /\ last.request.method = (IF last.op = "create_product" THEN "POST" ELSE "PUT")
        /\ last.request.endpoint =
              (IF last.op = "create_product" THEN "listings" ELSE "listings/" \o Str(last.sku))
        /\ (last.outcome.status = "ok" => last.result = Return(last.outcome.text))

\* C3: every failure of configuration load, of input-file read/parse and of
\* an API call ends main in its top-level handler, printed to stdout with
\* the Error: prefix; none leaves main uncaught or as an exit of the
\* argument parser.
C3_FailuresReachHandler ==
    (pc = "done" /\ failure \in {"config", "file", "api"}) =>
        /\ exit = "handled"
        /\ stdout # <<>>
        /\ stdout[Len(stdout)].kind = "error"

AllMaps(l) == \A i \in 1..Len(l) : l[i].isMap

CallsFor(i) ==
    LET Mine(c) == c.idx = i
    IN  SelectSeq(calls, Mine)

NoticesFor(i) ==
    LET Mine(l) == l.kind = "notice" /\ l.idx = i
    IN  SelectSeq(stdout, Mine)

\* C4: in update, every record that contains the key sku, whatever its
\* value, gets exactly one update_product call with that sku and the record
\* without its sku key; a record is skipped only if the key is absent.
\* Stated for the records the loop has reached.
C4_EverySkuRecordUpdated ==
    (command = "update" /\ pc = "done" /\ idx >= 1 /\ AllMaps(loaded)) =>
        \A i \in 1..Len(loaded) :
            LET f == loaded[i].fields
            IN  i <= idx =>
                  IF "sku" \in DOMAIN f
                  THEN /\ Len(CallsFor(i)) = 1
                       /\ CallsFor(i)[1].op = "update_product"
                       /\ CallsFor(i)[1].sku = f["sku"]
                       /\ CallsFor(i)[1].request.data = SomeData(MapRecord(Without(f, "sku")))
                  ELSE CallsFor(i) = <<>>

\* C5: in update, a record without sku gets a notice and no API call, and
\* every later record of the list is still processed (a call is made for it
\* or it is skipped with a notice), wherever the sku-less record stands.
C5_SkipThenContinue ==
    (command = "update" /\ pc = "done" /\ idx >= 1 /\ AllMaps(loaded)) =>
        \A i \in 1..Len(loaded) :
            ("sku" \notin DOMAIN loaded[i].fields /\ NoticesFor(i) # <<>>) =>
                /\ CallsFor(i) = <<>>
                /\ \A j \in (i + 1)..Len(loaded) : CallsFor(j) # <<>> \/ NoticesFor(j) # <<>>

\* What the claims say of the CSV: the columns a record contributes, and
\* the position of a name in the lexicographic order.
HasPhotoList(f) == "photos" \in DOMAIN f /\ f["photos"].isList

PhotoCount(f) == IF HasPhotoList(f) THEN Len(f["photos"].items) ELSE 0

PhotoColumns(f) == {"product_image_" \o ToString(n) : n \in 1..PhotoCount(f)}

KeptKeys(f) == IF HasPhotoList(f) THEN (DOMAIN f) \ {"photos"} ELSE DOMAIN f

PhotoAt(f, k) ==
    f["photos"].items[CHOOSE n \in 1..PhotoCount(f) : k = "product_image_" \o ToString(n)]

Rank(k) == CHOOSE n \in 1..Len(LexOrder) : LexOrder[n] = k

Exported ==
    /\ command = "export"
    /\ pc = "done"
    /\ loaded # <<>>
    /\ stdout # <<>>
    /\ stdout[Len(stdout)].kind = "exported"

HeaderAndRowCount ==
    /\ {outFile.header[j] : j \in 1..Len(outFile.header)} =
          UNION {KeptKeys(loaded[i].fields) \cup PhotoColumns(loaded[i].fields) :
                    i \in 1..Len(loaded)}
    /\ \A j \in 1..(Len(outFile.header) - 1) : Rank(outFile.header[j]) < Rank(outFile.header[j + 1])
    /\ Len(outFile.rows) = Len(loaded)
    /\ \A i \in 1..Len(loaded) : Len(outFile.rows[i]) = Len(outFile.header)

\* C6 as stated: the header is the sorted union of the flattened keys, one
\* row per record in input order; a photo column holds the photo URL, every
\* other key of the record keeps its value, a missing key is an empty cell.
C6_EveryOtherKeyKept ==
    Exported =>
        /\ HeaderAndRowCount
        /\ \A i \in 1..Len(loaded) : \A j \in 1..Len(outFile.header) :
              LET f == loaded[i].fields
                  k == outFile.header[j]
                  cell == outFile.rows[i][j]
              IN  /\ (k \in PhotoColumns(f) => cell = PhotoAt(f, k))
                  /\ (k \in KeptKeys(f) => cell = Str(f[k]))
                  /\ (k \notin PhotoColumns(f) \cup KeptKeys(f) => cell = "")

\* C6 amended: as above, but a key of the record that is named like one of
\* its own photo columns is overwritten by the photo URL.
C6_CsvLayout ==
    Exported =>
        /\ HeaderAndRowCount
        /\ \A i \in 1..Len(loaded) : \A j \in 1..Len(outFile.header) :
              LET f == loaded[i].fields
                  k == outFile.header[j]
                  cell == outFile.rows[i][j]
              IN  /\ (k \in PhotoColumns(f) => cell = PhotoAt(f, k))
                  /\ (k \in KeptKeys(f) \ PhotoColumns(f) => cell = Str(f[k]))
                  /\ (k \notin PhotoColumns(f) \cup KeptKeys(f) => cell = "")

C6_Witness ==
    /\ Exported
    /\ Len(loaded) = 2
    /\ PhotoCount(loaded[1].fields) = 2
    /\ loaded[1].fields["photos"].items[1] # loaded[1].fields["photos"].items[2]
    /\ DOMAIN loaded[2].fields = {"photos", "product_image_1"}
    /\ outFile.header = <<"photos", "product_image_1", "product_image_2">>

Reports ==
    LET IsError(l) == l.kind = "error"
    IN  Len(SelectSeq(stdout, IsError)) + Len(stderr)

IsPrefix(a, b) == Len(a) <= Len(b) /\ SubSeq(b, 1, Len(a)) = a

FailFast ==
    command \in {"create", "update"} =>
        /\ \A i \in 1..Len(calls) :
              calls[i].result.kind # "return" =>
                  /\ i = Len(calls)
                  /\ pc = "done"
                  /\ exit \in {"handled", "uncaught"}
                  /\ Reports = 1
        /\ \A i \in 1..Len(calls) : \A j \in 1..Len(calls) :
              i < j => calls[i].idx < calls[j].idx

\* C7: create and update process the records in list order; once the API
\* call for a record fails no call is made for a later record: the failure
\* leaves the loop, is reported once and the command ends, and the calls
\* made before stay made.
C7_FailFast == [][FailFast' /\ IsPrefix(calls, calls')]_vars

C7_Witness ==
    /\ command = "create"
    /\ pc = "done"
    /\ exit = "handled"
    /\ Len(loaded) = 3
    /\ Len(calls) = 2
    /\ calls[1].sent = 1
    /\ calls[1].result.kind = "return"
    /\ calls[2].sent = 1
    /\ calls[2].result.kind = "ValueError"

\* C8: export_to_csv with an empty list prints the "no products to export"
\* notice and returns without opening, creating or truncating the output
\* file, so a file at the output path keeps its content.
C8_EmptyExportLeavesFile ==
    [][(pc = "export" /\ products = <<>>) =>
          /\ outFile' = outFile
          /\ stdout' = <<Line("empty", "No products to export.", 0)>>
          /\ exit' = "returned"]_vars

C8_Witness ==
    /\ command = "export"
    /\ pc = "done"
    /\ exit = "returned"
    /\ loaded = <<>>
    /\ outFile = OldFile
    /\ stdout = <<Line("empty", "No products to export.", 0)>>

\* C9: the loaded list is not mutated except for the removal of sku during
\* update: after export (written or not) and after create every record has
\* the keys and values it was loaded with, photos lists included, in the
\* same order; after update a record differs from its loaded form at most
\* by the absence of sku.
C9_ListNotMutated ==
    /\ Len(products) = Len(loaded)
    /\ (command # "update" => products = loaded)
    /\ (command = "update" =>
          \A i \in 1..Len(loaded) :
              \/ products[i] = loaded[i]
              \/ /\ loaded[i].isMap
                 /\ i <= idx
                 /\ products[i] = MapRecord(Without(loaded[i].fields, "sku")))

C9_Witness ==
    /\ command = "export"
    /\ pc = "done"
    /\ outFile.opens = 1
    /\ stdout[Len(stdout)].kind = "write_error"
    /\ Len(loaded) = 2
    /\ PhotoCount(loaded[2].fields) = 2
    /\ products = loaded

\* The keys of the endpoints asked directly, and how many distinct keys
\* have been cached so far.
EndpointKey(n) == CacheKey("GET", "listings/" \o ToString(n), NoData)

DistinctCached == nextEndpoint + (IF firstOK.found THEN 1 ELSE 0)

\* The keys ever cached, from the least to the most recently used.
RecencyOrder ==
    [n \in 1..listUsedAt |-> EndpointKey(n)]
        \o (IF firstOK.found THEN <<ListKey>> ELSE <<>>)
        \o [n \in 1..(nextEndpoint - listUsedAt) |-> EndpointKey(listUsedAt + n)]

MostRecent(s, n) == IF Len(s) <= n THEN s ELSE SubSeq(s, Len(s) - n + 1, Len(s))

\* C10: over any sequence of list_products calls on one client, while fewer
\* than 128 distinct argument tuples have been cached, an HTTP request is
\* issued exactly for the calls up to and including the first that
\* succeeds; a failed call stores nothing and every call after the first
\* success returns its result without a request.  The cache never holds
\* more than 128 entries and evicts the least recently used one.
C10_ListCachedAfterFirstSuccess ==
    /\ DistinctCached < CacheMaxSize =>
          /\ listSent = (IF firstOK.found THEN firstOK.at ELSE listCalls)
          /\ (~firstOK.found => CacheIndex(cache, ListKey) = 0)
          /\ (last.op = "list_products" /\ firstOK.found /\ listCalls > firstOK.at) =>
                (last.sent = 0 /\ last.result = Return(firstOK.value))
    /\ Len(cache) <= CacheMaxSize
    /\ [i \in 1..Len(cache) |-> cache[i].key] = MostRecent(RecencyOrder, CacheMaxSize)

\* A failed call, the first success and a hit while the cache was nearly
\* empty; later the cache filled up and the list entry, by then the least
\* recently used one, was evicted.
C10_Witness ==
    /\ firstOK.found
    /\ firstOK.at = 2
    /\ listCalls = 3
    /\ listSent = 2
    /\ listUsedAt = 1
    /\ nextEndpoint > CacheMaxSize
    /\ Len(cache) = CacheMaxSize
    /\ CacheIndex(cache, ListKey) = 0

====
